---------------------------- MODULE Spec2Model ----------------------------
(***************************************************************************)
(* A model of websocketpp's HTTP message parser                            *)
(* (websocketpp/http/impl/parser.hpp): the header store, prepare_body,     *)
(* process_body and set_body.                                              *)
(*                                                                         *)
(* A std::string is a sequence of one-character strings.  A size_t is a    *)
(* natural number below 2^SizeBits.  The header store (a std::map with a   *)
(* case-insensitive comparator) is a set of [first, second] pairs, no two  *)
(* of which have case-insensitively equal keys.                            *)
(***************************************************************************)
EXTENDS Integers, Sequences, FiniteSets, TLC

VARIABLES
    m_headers,            \* header_list: set of [first |-> key, second |-> value]
    m_body,               \* std::string
    m_body_bytes_needed,  \* size_t
    m_body_bytes_total,   \* size_t
    m_body_bytes_max,     \* size_t, 0 means unlimited
    m_content_encoding,   \* std::vector of content encodings
    m_transfer_encoding,  \* std::vector of transfer encodings
    stream,               \* the body bytes the transport delivers to the caller
    pos,                  \* how many bytes of stream the parser reported consumed
    op,                   \* the operation called last
    arg,                  \* its arguments, and what the caller saw just before it
    ret,                  \* its return value
    ec                    \* the error code it returned or left in its out-parameter

vars == <<m_headers, m_body, m_body_bytes_needed, m_body_bytes_total,
          m_body_bytes_max, m_content_encoding, m_transfer_encoding,
          stream, pos, op, arg, ret, ec>>

parserVars == <<m_headers, m_body, m_body_bytes_needed, m_body_bytes_total,
                m_body_bytes_max, m_content_encoding, m_transfer_encoding>>

-----------------------------------------------------------------------------
(* Bounds of the model. *)

\* Width of size_t in the model (the build's is 64; TLC's integers are 32 bits).
SizeBits == 12

\* prepare_body is called only while each encoding vector is shorter than this.
MaxEncLen == 3

\* append_header is called only while the merged value stays within this length.
MaxValueLen == 7

SIZE_MOD == 2 ^ SizeBits

ULONG_MAX == SIZE_MOD - 1

-----------------------------------------------------------------------------
(* Characters and strings. *)

Min(a, b) == IF a < b THEN a ELSE b

\* The one element of a singleton set.  Only({ e(x) : x \in {v} }) is e(v) with
\* v evaluated once, however often e uses it.
Only(S) == CHOOSE x \in S : TRUE

UpperCase == <<"A","B","C","D","E","F","G","H","I","J","K","L","M",
               "N","O","P","Q","R","S","T","U","V","W","X","Y","Z">>

LowerCase == <<"a","b","c","d","e","f","g","h","i","j","k","l","m",
               "n","o","p","q","r","s","t","u","v","w","x","y","z">>

DecDigits == <<"0","1","2","3","4","5","6","7","8","9">>

Range(s) == { s[i] : i \in 1..Len(s) }

UpperSet == Range(UpperCase)

LowerSet == Range(LowerCase)

DigitSet == Range(DecDigits)

IndexIn(s, c) == CHOOSE i \in 1..Len(s) : s[i] = c

\* std::tolower in the "C" locale, as the case-insensitive comparator applies it.
tolower(c) == IF c \in UpperSet THEN LowerCase[IndexIn(UpperCase, c)] ELSE c

to_lower(s) == [i \in 1..Len(s) |-> tolower(s[i])]

\* utility::ci_less orders keys ignoring case: two keys are the same map key
\* when neither is less than the other.
ci_equal(a, b) == to_lower(a) = to_lower(b)

\* http::is_token_char: RFC 2616 token characters (no CTLs, no separators).
\* The grave accent, a token character too, cannot be written in a TLA+ string.
is_token_char(c) ==
    \/ c \in UpperSet \/ c \in LowerSet \/ c \in DigitSet
    \/ c \in {"!","#","$","%","&","'","*","+","-",".","^","_","|","~"}

is_not_token_char(c) == ~is_token_char(c)

is_whitespace_char(c) == c \in {" ", "\t"}

\* isspace in the "C" locale (vertical tab has no TLA+ spelling).
isspace(c) == c \in {" ", "\t", "\n", "\r", "\f"}

\* The value of c as a digit for strtoul: 0-9, then letters from 10; 36 if none.
digit_value(c) ==
    IF c \in DigitSet THEN IndexIn(DecDigits, c) - 1
    ELSE IF c \in LowerSet THEN IndexIn(LowerCase, c) + 9
    ELSE IF c \in UpperSet THEN IndexIn(UpperCase, c) + 9
    ELSE 36

\* The first index at or after i whose character is not a base-`base` digit.
digits_end(s, i, base) ==
    CHOOSE j \in i..(Len(s) + 1) :
        /\ (j = Len(s) + 1 \/ digit_value(s[j]) >= base)
        /\ \A k \in i..(j - 1) : digit_value(s[k]) < base

\* The first index at or after i whose character is not white space.
space_end(s, i) ==
    CHOOSE j \in i..(Len(s) + 1) :
        /\ (j = Len(s) + 1 \/ ~isspace(s[j]))
        /\ \A k \in i..(j - 1) : isspace(s[k])

RECURSIVE accumulate(_, _, _, _, _)
\* The digits s[i..j] read in base `base` onto acc; ULONG_MAX + 1 once the
\* value no longer fits an unsigned long.
accumulate(s, i, j, base, acc) ==
    IF i > j THEN acc
    ELSE Only({ accumulate(s, i + 1, j, base, next) :
                next \in { IF acc * base + digit_value(s[i]) > ULONG_MAX
                           THEN ULONG_MAX + 1
                           ELSE acc * base + digit_value(s[i]) } })

\* strtoul once the white space is skipped: i0 is the index it ends at.
strtoul_at(s, base, i0) ==
    LET sign == i0 <= Len(s) /\ s[i0] \in {"+", "-"}
        neg  == sign /\ s[i0] = "-"
        i1   == IF sign THEN i0 + 1 ELSE i0
        pfx  == /\ base = 16
                /\ i1 + 2 <= Len(s)
                /\ s[i1] = "0"
                /\ s[i1 + 1] \in {"x", "X"}
                /\ digit_value(s[i1 + 2]) < 16
        i2   == IF pfx THEN i1 + 2 ELSE i1
    IN  Only({ Only({ IF j = start THEN [val |-> 0, end |-> 1]
                      ELSE IF acc > ULONG_MAX THEN [val |-> ULONG_MAX, end |-> j]
                      ELSE IF neg THEN [val |-> (SIZE_MOD - acc) % SIZE_MOD, end |-> j]
                      ELSE [val |-> acc, end |-> j] :
                      acc \in { accumulate(s, start, j - 1, base, 0) } }) :
               start \in {i2}, j \in { digits_end(s, i2, base) } })

\* std::strtoul(s.c_str(), &end, base) for base 10 or 16: val is the result and
\* end the index of the first character not converted (Len(s) + 1 is the
\* terminating NUL, where &*s.cend() points; 1 is s.c_str(), where end is left
\* when no digits are found).  A "-" negates the value as an unsigned long; a
\* value too large gives ULONG_MAX; base 16 skips a "0x" before a digit.
strtoul(s, base) == Only({ strtoul_at(s, base, i0) : i0 \in { space_end(s, 1) } })

RECURSIVE to_decimal(_)
\* operator<<(std::ostream &, size_t): the decimal digits of n.
to_decimal(n) ==
    IF n < 10 THEN <<DecDigits[n + 1]>>
    ELSE Append(to_decimal(n \div 10), DecDigits[(n % 10) + 1])

-----------------------------------------------------------------------------
(* Constants of the program. *)

Header_ContentLength == <<"C","o","n","t","e","n","t","-","L","e","n","g","t","h">>

Header_ContentEncoding ==
    <<"C","o","n","t","e","n","t","-","E","n","c","o","d","i","n","g">>

Header_TransferEncoding ==
    <<"T","r","a","n","s","f","e","r","-","E","n","c","o","d","i","n","g">>

empty_header == <<>>

http_crlf == <<"\r", "\n">>

str_gzip == <<"g","z","i","p">>

str_x_gzip == <<"x","-","g","z","i","p">>

str_compress == <<"c","o","m","p","r","e","s","s">>

str_deflate == <<"d","e","f","l","a","t","e">>

str_chunked == <<"c","h","u","n","k","e","d">>

\* The most entries an encoding vector may hold after prepare_body's check.
MaxEncodings == 3

\* lib::error_code values; "success" is the default-constructed error_code.
Errors == {"success", "invalid_header_name", "body_too_large", "invalid_format",
           "unknown_content_encoding", "unsupported_content_encoding",
           "unknown_transfer_encoding", "unsupported_transfer_encoding"}

-----------------------------------------------------------------------------
(* The parser object: the record of its members, `this` in every method. *)

this == [m_headers |-> m_headers, m_body |-> m_body,
         m_body_bytes_needed |-> m_body_bytes_needed,
         m_body_bytes_total |-> m_body_bytes_total,
         m_body_bytes_max |-> m_body_bytes_max,
         m_content_encoding |-> m_content_encoding,
         m_transfer_encoding |-> m_transfer_encoding]

\* The members after a method has run on the object.
Becomes(p) ==
    /\ m_headers' = p.m_headers
    /\ m_body' = p.m_body
    /\ m_body_bytes_needed' = p.m_body_bytes_needed
    /\ m_body_bytes_total' = p.m_body_bytes_total
    /\ m_body_bytes_max' = p.m_body_bytes_max
    /\ m_content_encoding' = p.m_content_encoding
    /\ m_transfer_encoding' = p.m_transfer_encoding

-----------------------------------------------------------------------------
(* The header store. *)

\* header_list::find(key): the entries whose key equals key ignoring case
\* (none or one).
header_find(h, key) == { e \in h : ci_equal(e.first, key) }

\* m_headers[key] = val: an entry found keeps its key's spelling.
header_assign(h, key, val) ==
    IF header_find(h, key) = {}
    THEN h \cup {[first |-> key, second |-> val]}
    ELSE { IF ci_equal(e.first, key) THEN [e EXCEPT !.second = val] ELSE e : e \in h }

\* m_headers.erase(key)
header_erase(h, key) == h \ header_find(h, key)

get_header(p, key) ==
    LET h == header_find(p.m_headers, key)
    IN  IF h = {} THEN empty_header ELSE (CHOOSE e \in h : TRUE).second

\* std::find_if(key.begin(), key.end(), is_not_token_char) != key.end()
has_not_token_char(key) == \E i \in 1..Len(key) : is_not_token_char(key[i])

\* The same with the test dropped: every name is accepted.
append_header_unvalidated(p, key, val) ==
    [ec |-> "success",
     p  |-> [p EXCEPT !.m_headers =
                IF get_header(p, key) = <<>>
                THEN header_assign(p.m_headers, key, val)
                ELSE header_assign(p.m_headers, key,
                                   get_header(p, key) \o <<",", " ">> \o val)]]

\* The same with the separator "," in place of ", ".
append_header_comma(p, key, val) ==
    IF has_not_token_char(key)
    THEN [ec |-> "invalid_header_name", p |-> p]
    ELSE [ec |-> "success",
          p  |-> [p EXCEPT !.m_headers =
                     IF get_header(p, key) = <<>>
                     THEN header_assign(p.m_headers, key, val)
                     ELSE header_assign(p.m_headers, key,
                                        get_header(p, key) \o <<",">> \o val)]]

append_header(p, key, val) ==
    IF has_not_token_char(key)
    THEN [ec |-> "invalid_header_name", p |-> p]
    ELSE [ec |-> "success",
          p  |-> [p EXCEPT !.m_headers =
                     IF get_header(p, key) = <<>>
                     THEN header_assign(p.m_headers, key, val)
                     ELSE header_assign(p.m_headers, key,
                                        get_header(p, key) \o <<",", " ">> \o val)]]

replace_header(p, key, val) ==
    IF has_not_token_char(key)
    THEN [ec |-> "invalid_header_name", p |-> p]
    ELSE [ec |-> "success",
          p  |-> [p EXCEPT !.m_headers = header_assign(p.m_headers, key, val)]]

remove_header(p, key) ==
    IF has_not_token_char(key)
    THEN [ec |-> "invalid_header_name", p |-> p]
    ELSE [ec |-> "success",
          p  |-> [p EXCEPT !.m_headers = header_erase(p.m_headers, key)]]

\* A variant that appends the length to the Content-Length header.
set_body_append(p, value) ==
    IF Len(value) = 0
    THEN Only({ IF r.ec # "success" THEN [ec |-> r.ec, p |-> r.p]
                ELSE [ec |-> "success", p |-> [r.p EXCEPT !.m_body = <<>>]] :
                r \in { remove_header(p, Header_ContentLength) } })
    ELSE IF p.m_body_bytes_max # 0 /\ Len(value) > p.m_body_bytes_max
    THEN [ec |-> "body_too_large", p |-> p]
    ELSE Only({ IF r.ec # "success" THEN [ec |-> r.ec, p |-> r.p]
                ELSE [ec |-> "success", p |-> [r.p EXCEPT !.m_body = value]] :
                r \in { Only({ append_header(p, Header_ContentLength, len) :
                               len \in { to_decimal(Len(value)) } }) } })

\* A variant without the comparison with m_body_bytes_max.
set_body_unlimited(p, value) ==
    IF Len(value) = 0
    THEN Only({ IF r.ec # "success" THEN [ec |-> r.ec, p |-> r.p]
                ELSE [ec |-> "success", p |-> [r.p EXCEPT !.m_body = <<>>]] :
                r \in { remove_header(p, Header_ContentLength) } })
    ELSE Only({ IF r.ec # "success" THEN [ec |-> r.ec, p |-> r.p]
                ELSE [ec |-> "success", p |-> [r.p EXCEPT !.m_body = value]] :
                r \in { Only({ replace_header(p, Header_ContentLength, len) :
                               len \in { to_decimal(Len(value)) } }) } })

set_body(p, value) ==
    IF Len(value) = 0
    THEN Only({ IF r.ec # "success" THEN [ec |-> r.ec, p |-> r.p]
                ELSE [ec |-> "success", p |-> [r.p EXCEPT !.m_body = <<>>]] :
                r \in { remove_header(p, Header_ContentLength) } })
    ELSE IF p.m_body_bytes_max # 0 /\ Len(value) > p.m_body_bytes_max
    THEN [ec |-> "body_too_large", p |-> p]
    ELSE Only({ IF r.ec # "success" THEN [ec |-> r.ec, p |-> r.p]
                ELSE [ec |-> "success", p |-> [r.p EXCEPT !.m_body = value]] :
                r \in { Only({ replace_header(p, Header_ContentLength, len) :
                               len \in { to_decimal(Len(value)) } }) } })

consume_body(p) == [p EXCEPT !.m_body = <<>>]

-----------------------------------------------------------------------------
(* The parameter list parser: list := token (";" param)* ("," list)?,       *)
(* param := token "=" (token | quoted-string), linear white space allowed   *)
(* between the parts.  The whole value must reduce to the grammar.          *)

\* The first index at or after i whose character is not a space or a tab.
lws_end(s, i) ==
    CHOOSE j \in i..(Len(s) + 1) :
        /\ (j = Len(s) + 1 \/ ~is_whitespace_char(s[j]))
        /\ \A k \in i..(j - 1) : is_whitespace_char(s[k])

\* The first index at or after i whose character is not a token character.
token_end(s, i) ==
    CHOOSE j \in i..(Len(s) + 1) :
        /\ (j = Len(s) + 1 \/ is_not_token_char(s[j]))
        /\ \A k \in i..(j - 1) : is_token_char(s[k])

\* The index after the quoted string that opens at i, 0 if it is not closed.
quoted_end(s, i) ==
    LET closing == { j \in (i + 1)..Len(s) : s[j] = "\"" }
    IN  IF closing = {} THEN 0
        ELSE (CHOOSE j \in closing : \A k \in closing : j <= k) + 1

\* The index after the value of a param, which starts at v: a quoted string
\* or a token; 0 if there is neither.
attribute_value_end(s, v) ==
    IF v > Len(s) THEN 0
    ELSE IF s[v] = "\"" THEN quoted_end(s, v)
    ELSE Only({ IF t = v THEN 0 ELSE t : t \in { token_end(s, v) } })

RECURSIVE extract_attributes(_, _)
\* The index after the params that start at i (after a ";"), 0 if malformed.
extract_attributes(s, i) ==
    Only({ Only({ IF b = a \/ b > Len(s) \/ s[b] # "=" THEN 0
                  ELSE Only({ IF d = 0 THEN 0
                              ELSE Only({ IF e <= Len(s) /\ s[e] = ";"
                                          THEN extract_attributes(s, e + 1)
                                          ELSE e :
                                          e \in { lws_end(s, d) } }) :
                              d \in { attribute_value_end(s, b + 1) } }) :
                  b \in { token_end(s, a) } }) :
           a \in { lws_end(s, i) } })

\* The index after the params that follow the token ending before c, if any.
after_attributes(s, c) ==
    IF c <= Len(s) /\ s[c] = ";" THEN extract_attributes(s, c + 1) ELSE c

RECURSIVE extract_list(_, _, _)
\* it is where parsing stopped (1, the beginning, when the value is not a
\* parameter list) and out the primary tokens, in order; the attributes are
\* parsed and dropped, no caller in the parser reads them.
extract_list(s, i, out) ==
    Only({ Only({ IF b = a THEN [it |-> 1, out |-> <<>>]
                  ELSE Only({ IF d = 0 THEN [it |-> 1, out |-> <<>>]
                              ELSE IF d > Len(s) THEN [it |-> Len(s) + 1, out |-> out2]
                              ELSE IF s[d] = "," THEN extract_list(s, d + 1, out2)
                              ELSE [it |-> 1, out |-> <<>>] :
                              d \in { after_attributes(s, lws_end(s, b)) },
                              out2 \in { Append(out, SubSeq(s, a, b - 1)) } }) :
                  b \in { token_end(s, a) } }) :
           a \in { lws_end(s, i) } })

extract_parameters(s) ==
    IF s = <<>> THEN [it |-> 1, out |-> <<>>] ELSE extract_list(s, 1, <<>>)

\* ret is TRUE when the value is NOT a parameter list (it == in.begin()).
parse_parameter_list(in) ==
    IF Len(in) = 0 THEN [ret |-> FALSE, out |-> <<>>]
    ELSE Only({ [ret |-> (r.it = 1), out |-> r.out] : r \in { extract_parameters(in) } })

get_header_as_plist(p, key) ==
    Only({ IF it = {} \/ Len(Only(it).second) = 0
           THEN [ret |-> FALSE, out |-> <<>>]
           ELSE Only({ parse_parameter_list(value) : value \in { Only(it).second } }) :
           it \in { header_find(p.m_headers, key) } })

\* content_encoding::from_string: "none" stands for the empty optional.
content_encoding_from_string(t) ==
    IF t = str_gzip \/ t = str_x_gzip THEN "gzip"
    ELSE IF t = str_compress THEN "compress"
    ELSE IF t = str_deflate THEN "deflate"
    ELSE "none"

\* The if / else-if chain of prepare_body's transfer-encoding loop; "none" is
\* its final else.
transfer_encoding_from_token(t) ==
    IF t = str_gzip \/ t = str_x_gzip THEN "gzip"
    ELSE IF t = str_compress THEN "compress"
    ELSE IF t = str_deflate THEN "deflate"
    ELSE IF t = str_chunked THEN "chunked"
    ELSE "none"

\* The index of the first "none" of a mapped list, 0 if there is none.
first_none(mapped) ==
    LET bad == { i \in 1..Len(mapped) : mapped[i] = "none" }
    IN  IF bad = {} THEN 0 ELSE CHOOSE i \in bad : \A k \in bad : i <= k

\* std::find(v.begin(), v.end(), transfer_encoding::chunked) != v.end()
has_chunked(v) == \E i \in 1..Len(v) : v[i] = "chunked"

-----------------------------------------------------------------------------
(* prepare_body.  Each part returns done (prepare_body returns here), the   *)
(* value returned, the error code and the object.                           *)

\* The loop over the list and the size check after it: list is the mapped
\* list ("none" for a token that maps to nothing), vec the vector pushed onto.
\* found is "none" at an unmapped token, "many" when the vector holds more than
\* MaxEncodings entries after the loop, else "ok".
\* A variant that tests the size of the list before it maps the tokens.
push_encodings_size_first(vec, list) ==
    Only({ Only({ [vec   |-> pushed,
                   found |-> IF Len(vec) + Len(list) > MaxEncodings THEN "many"
                             ELSE IF u # 0 THEN "none"
                             ELSE "ok"] :
                  pushed \in { vec \o (IF u = 0 THEN list ELSE SubSeq(list, 1, u - 1)) } }) :
           u \in { first_none(list) } })

push_encodings(vec, list) ==
    Only({ Only({ [vec   |-> pushed,
                   found |-> IF u # 0 THEN "none"
                             ELSE IF Len(pushed) > MaxEncodings THEN "many"
                             ELSE "ok"] :
                  pushed \in { vec \o (IF u = 0 THEN list ELSE SubSeq(list, 1, u - 1)) } }) :
           u \in { first_none(list) } })

\* The Content-Encoding part.
prepare_content_encoding(p) ==
    Only({ IF ce.ret THEN [done |-> FALSE, ret |-> FALSE, ec |-> "success", p |-> p]
           ELSE Only({ [done |-> (r.found # "ok"),
                        ret  |-> FALSE,
                        ec   |-> IF r.found = "none" THEN "unknown_content_encoding"
                                 ELSE IF r.found = "many"
                                 THEN "unsupported_content_encoding"
                                 ELSE "success",
                        p    |-> [p EXCEPT !.m_content_encoding = r.vec]] :
                       r \in { push_encodings(p.m_content_encoding,
                                   [i \in 1..Len(ce.out) |->
                                       content_encoding_from_string(ce.out[i])]) } }) :
           ce \in { get_header_as_plist(p, Header_ContentEncoding) } })

\* A variant without the return for chunked.
prepare_transfer_encoding_no_return(p) ==
    Only({ IF te.ret \/ te.out = <<>>
           THEN [done |-> FALSE, ret |-> FALSE, ec |-> "success", p |-> p]
           ELSE Only({ [done |-> (r.found # "ok"),
                        ret  |-> FALSE,
                        ec   |-> IF r.found = "none" THEN "unknown_transfer_encoding"
                                 ELSE IF r.found = "many"
                                 THEN "unsupported_transfer_encoding"
                                 ELSE "success",
                        p    |-> [p EXCEPT !.m_transfer_encoding = r.vec]] :
                       r \in { push_encodings(p.m_transfer_encoding,
                                   [i \in 1..Len(te.out) |->
                                       transfer_encoding_from_token(te.out[i])]) } }) :
           te \in { get_header_as_plist(p, Header_TransferEncoding) } })

\* The Transfer-Encoding part.
prepare_transfer_encoding(p) ==
    Only({ IF te.ret \/ te.out = <<>>
           THEN [done |-> FALSE, ret |-> FALSE, ec |-> "success", p |-> p]
           ELSE Only({ [done |-> (r.found # "ok" \/ has_chunked(r.vec)),
                        ret  |-> (r.found = "ok" /\ has_chunked(r.vec)),
                        ec   |-> IF r.found = "none" THEN "unknown_transfer_encoding"
                                 ELSE IF r.found = "many"
                                 THEN "unsupported_transfer_encoding"
                                 ELSE "success",
                        p    |-> [p EXCEPT !.m_transfer_encoding = r.vec]] :
                       r \in { push_encodings(p.m_transfer_encoding,
                                   [i \in 1..Len(te.out) |->
                                       transfer_encoding_from_token(te.out[i])]) } }) :
           te \in { get_header_as_plist(p, Header_TransferEncoding) } })

\* A variant that does not compare the end of the conversion with the end of
\* the value.
prepare_content_length_no_end(p) ==
    Only({ IF cl_header = <<>> THEN [ret |-> FALSE, ec |-> "success", p |-> p]
           ELSE Only({ Only({ IF p1.m_body_bytes_max # 0
                                 /\ p1.m_body_bytes_total > p1.m_body_bytes_max
                              THEN [ret |-> FALSE, ec |-> "body_too_large", p |-> p1]
                              ELSE [ret |-> (p1.m_body_bytes_needed # 0),
                                    ec  |-> "success", p |-> p1] :
                              p1 \in { [p EXCEPT !.m_body_bytes_needed = n.val,
                                                 !.m_body_bytes_total = n.val] } }) :
                       n \in { strtoul(cl_header, 10) } }) :
           cl_header \in { get_header(p, Header_ContentLength) } })

\* The Content-Length part.
prepare_content_length(p) ==
    Only({ IF cl_header = <<>> THEN [ret |-> FALSE, ec |-> "success", p |-> p]
           ELSE Only({ Only({ IF n.end # Len(cl_header) + 1
                              THEN [ret |-> FALSE, ec |-> "invalid_format", p |-> p1]
                              ELSE IF p1.m_body_bytes_max # 0
                                      /\ p1.m_body_bytes_total > p1.m_body_bytes_max
                              THEN [ret |-> FALSE, ec |-> "body_too_large", p |-> p1]
                              ELSE [ret |-> (p1.m_body_bytes_needed # 0),
                                    ec  |-> "success", p |-> p1] :
                              p1 \in { [p EXCEPT !.m_body_bytes_needed = n.val,
                                                 !.m_body_bytes_total = n.val] } }) :
                       n \in { strtoul(cl_header, 10) } }) :
           cl_header \in { get_header(p, Header_ContentLength) } })

prepare_body(p) ==
    Only({ IF c.done THEN [ret |-> c.ret, ec |-> c.ec, p |-> c.p]
           ELSE Only({ IF t.done THEN [ret |-> t.ret, ec |-> t.ec, p |-> t.p]
                       ELSE Only({ prepare_content_length(p2) : p2 \in { t.p } }) :
                       t \in { Only({ prepare_transfer_encoding(p1) : p1 \in { c.p } }) } }) :
           c \in { prepare_content_encoding(p) } })

-----------------------------------------------------------------------------
(* process_body. *)

\* std::search(buf, buf + len, http_crlf, ...): the index of the first CRLF,
\* Len(buf) + 1 (buf + len) if there is none.
search_crlf(buf) ==
    Only({ IF at = {} THEN Len(buf) + 1 ELSE CHOOSE i \in at : \A k \in at : i <= k :
           at \in { { i \in 1..(Len(buf) - 1) : buf[i] = "\r" /\ buf[i + 1] = "\n" } } })

\* The branch shared by plain framing and a chunk already started.
\* A variant that appends the whole buffer, without the minimum.
process_plain_whole(p, buf) ==
    Only({ [ret |-> processed, ec |-> "success", depth |-> 0,
            p   |-> [p EXCEPT !.m_body = p.m_body \o SubSeq(buf, 1, processed),
                              !.m_body_bytes_needed = p.m_body_bytes_needed - processed]] :
           processed \in { Len(buf) } })

process_plain(p, buf) ==
    Only({ [ret |-> processed, ec |-> "success", depth |-> 0,
            p   |-> [p EXCEPT !.m_body = p.m_body \o SubSeq(buf, 1, processed),
                              !.m_body_bytes_needed = p.m_body_bytes_needed - processed]] :
           processed \in { Min(p.m_body_bytes_needed, Len(buf)) } })

RECURSIVE process_body(_, _, _)

\* A variant whose nested call is given the whole buffer again.
process_chunk_whole_buffer(p, buf, ec_in, newline, n, p1) ==
    IF n.end # newline
    THEN [ret |-> 0, ec |-> "invalid_format", depth |-> 0, p |-> p1]
    ELSE IF p1.m_body_bytes_max # 0 /\ p1.m_body_bytes_total > p1.m_body_bytes_max
    THEN [ret |-> 0, ec |-> "body_too_large", depth |-> 0, p |-> p1]
    ELSE IF p1.m_body_bytes_needed = 0
    THEN [ret |-> Len(buf), ec |-> ec_in, depth |-> 0, p |-> p1]
    ELSE Only({ [ret |-> processed + rest.ret, ec |-> rest.ec,
                 depth |-> rest.depth + 1, p |-> rest.p] :
                processed \in { (newline - 1) + Len(http_crlf) },
                rest \in { process_body(p1, buf, ec_in) } })

\* A variant that goes on to the next chunk, past the CRLF of the payload, in
\* a further nested call.
process_chunk_every_chunk(p, buf, ec_in, newline, n, p1) ==
    IF n.end # newline
    THEN [ret |-> 0, ec |-> "invalid_format", depth |-> 0, p |-> p1]
    ELSE IF p1.m_body_bytes_max # 0 /\ p1.m_body_bytes_total > p1.m_body_bytes_max
    THEN [ret |-> 0, ec |-> "body_too_large", depth |-> 0, p |-> p1]
    ELSE IF p1.m_body_bytes_needed = 0
    THEN [ret |-> Len(buf), ec |-> ec_in, depth |-> 0, p |-> p1]
    ELSE Only({ IF rest.p.m_body_bytes_needed # 0
                   \/ processed + rest.ret + Len(http_crlf) > Len(buf)
                   \/ SubSeq(buf, processed + rest.ret + 1,
                                  processed + rest.ret + Len(http_crlf)) # http_crlf
                THEN [ret |-> processed + rest.ret, ec |-> rest.ec,
                      depth |-> rest.depth + 1, p |-> rest.p]
                ELSE Only({ [ret |-> processed + rest.ret + Len(http_crlf) + more.ret,
                             ec |-> more.ec, depth |-> more.depth + 1, p |-> more.p] :
                            more \in { Only({ process_body(rest.p, tail, ec_in) :
                                              tail \in { SubSeq(buf,
                                                  processed + rest.ret + Len(http_crlf) + 1,
                                                  Len(buf)) } }) } }) :
                processed \in { (newline - 1) + Len(http_crlf) },
                rest \in { Only({ process_body(p1, tail, ec_in) :
                                  tail \in { SubSeq(buf, newline + Len(http_crlf),
                                                    Len(buf)) } }) } })

\* The new-chunk branch once the size line is read: newline is the index of
\* its CRLF, n what strtoul made of the bytes before it, p1 the object with
\* the counters updated.
process_chunk(p, buf, ec_in, newline, n, p1) ==
    IF n.end # newline
    THEN [ret |-> 0, ec |-> "invalid_format", depth |-> 0, p |-> p1]
    ELSE IF p1.m_body_bytes_max # 0 /\ p1.m_body_bytes_total > p1.m_body_bytes_max
    THEN [ret |-> 0, ec |-> "body_too_large", depth |-> 0, p |-> p1]
    ELSE IF p1.m_body_bytes_needed = 0
    THEN [ret |-> Len(buf), ec |-> ec_in, depth |-> 0, p |-> p1]
    ELSE Only({ [ret |-> processed + rest.ret, ec |-> rest.ec,
                 depth |-> rest.depth + 1, p |-> rest.p] :
                processed \in { (newline - 1) + Len(http_crlf) },
                rest \in { Only({ process_body(p1, tail, ec_in) :
                                  tail \in { SubSeq(buf, newline + Len(http_crlf),
                                                    Len(buf)) } }) } })

\* ec_in is the caller's error_code on entry; the result's ec is what it holds
\* on return, and depth the number of calls of process_body nested in this one.
process_body(p, buf, ec_in) ==
    IF Len(buf) = 0 THEN [ret |-> 0, ec |-> ec_in, depth |-> 0, p |-> p]
    ELSE IF ~has_chunked(p.m_transfer_encoding) THEN process_plain(p, buf)
    ELSE IF p.m_body_bytes_needed # 0 THEN process_plain(p, buf)
    ELSE Only({ IF newline = Len(buf) + 1
                THEN [ret |-> 0, ec |-> "invalid_format", depth |-> 0, p |-> p]
                ELSE Only({ Only({ process_chunk(p, buf, ec_in, newline, n, p1) :
                                   p1 \in { [p EXCEPT
                                              !.m_body_bytes_needed = n.val,
                                              !.m_body_bytes_total =
                                                  (p.m_body_bytes_total + n.val)
                                                      % SIZE_MOD] } }) :
                            n \in { Only({ strtoul(chunkSizeHex, 16) :
                                           chunkSizeHex \in
                                               { SubSeq(buf, 1, newline - 1) } }) } }) :
                newline \in { search_crlf(buf) } })

-----------------------------------------------------------------------------
(* process_header and raw_headers. *)

\* The separator process_header searches for.
header_separator == <<":">>

\* The first index at which sep starts in s, Len(s) + 1 when it does not occur.
search(s, sep) ==
    Only({ IF at = {} THEN Len(s) + 1 ELSE CHOOSE i \in at : \A k \in at : i <= k :
           at \in { { i \in 1..(Len(s) - Len(sep) + 1) :
                        SubSeq(s, i, i + Len(sep) - 1) = sep } } })

\* The last index of s that holds no whitespace, 0 when there is none.
lws_begin(s) ==
    Only({ IF at = {} THEN 0 ELSE CHOOSE i \in at : \A k \in at : i >= k :
           at \in { { i \in 1..Len(s) : ~is_whitespace_char(s[i]) } } })

\* strip_lws: the string without its leading and trailing whitespace.
strip_lws(s) == SubSeq(s, lws_end(s, 1), lws_begin(s))

\* A variant that takes the name and the value as they stand in the line.
process_header_unstripped(p, line) ==
    Only({ IF cursor = Len(line) + 1
           THEN [ec |-> "body_too_large", p |-> p]
           ELSE append_header(p,
                    SubSeq(line, 1, cursor - 1),
                    SubSeq(line, cursor + Len(header_separator), Len(line))) :
           cursor \in { search(line, header_separator) } })

process_header(p, line) ==
    Only({ IF cursor = Len(line) + 1
           THEN [ec |-> "body_too_large", p |-> p]
           ELSE append_header(p,
                    strip_lws(SubSeq(line, 1, cursor - 1)),
                    strip_lws(SubSeq(line, cursor + Len(header_separator), Len(line)))) :
           cursor \in { search(line, header_separator) } })

\* The token characters in the order of their codes, upper case left out.
token_char_order ==
    <<"!","#","$","%","&","'","*","+","-",".">> \o DecDigits \o <<"^","_">>
        \o LowerCase \o <<"|","~">>

\* utility::ci_less: a comes before b, letters compared in lower case.
ci_less(a, b) ==
    \E i \in 1..(Len(b)) :
        /\ i <= Len(a) + 1
        /\ SubSeq(to_lower(a), 1, i - 1) = SubSeq(to_lower(b), 1, i - 1)
        /\ \/ i = Len(a) + 1
           \/ IndexIn(token_char_order, tolower(a[i]))
                  < IndexIn(token_char_order, tolower(b[i]))

RECURSIVE raw_entries(_)
\* The entries of the map from begin() to end(), each written as a line.
raw_entries(h) ==
    IF h = {} THEN <<>>
    ELSE Only({ it.first \o <<":", " ">> \o it.second \o http_crlf
                    \o raw_entries(h \ {it}) :
                it \in { CHOOSE e \in h :
                            \A o \in h \ {e} : ci_less(e.first, o.first) } })

raw_headers(p) == raw_entries(p.m_headers)

-----------------------------------------------------------------------------
(* The callers' inputs. *)

str_a == <<"a">>

str_b == <<"b">>

str_abc == <<"a", "b", "c">>

name_X_A == <<"X", "-", "A">>

name_x_a == <<"x", "-", "a">>

name_space == <<"X", " ", "A">>

name_control == <<"X", "\t">>

name_separator == <<"X", ":", "A">>

\* RFC 7230 4.1: each chunk is its size in hexadecimal, CRLF, the payload,
\* CRLF; a chunk of size 0 and a CRLF end the body.
hex_digits == <<"0","1","2","3","4","5","6","7","8","9","a","b","c","d","e","f">>

RECURSIVE to_hex(_)
to_hex(n) ==
    IF n < 16 THEN <<hex_digits[n + 1]>>
    ELSE Append(to_hex(n \div 16), hex_digits[(n % 16) + 1])

RECURSIVE concat(_)
concat(ss) == IF ss = <<>> THEN <<>> ELSE Head(ss) \o concat(Tail(ss))

RECURSIVE chunked_encode(_)
chunked_encode(chunks) ==
    IF chunks = <<>> THEN <<"0">> \o http_crlf \o http_crlf
    ELSE to_hex(Len(Head(chunks))) \o http_crlf \o Head(chunks) \o http_crlf
             \o chunked_encode(Tail(chunks))

str_Wiki == <<"W", "i", "k", "i">>

str_pedia == <<"p", "e", "d", "i", "a">>

str_hello == <<"h", "e", "l", "l", "o">>

\* "4\r\nWiki\r\n5\r\npedia\r\n0\r\n\r\n"
stream_Wikipedia == chunked_encode(<<str_Wiki, str_pedia>>)

\* Bodies as lists of non-empty chunk payloads.
ChunkLists == { <<>>, <<str_Wiki>>, <<str_Wiki, str_pedia>> }

\* Complete, well-formed chunked bodies.
ChunkedStreams == { chunked_encode(cs) : cs \in ChunkLists }

\* A plain body with one byte more than a Content-Length of 5 announces.
PlainStreams == { str_hello \o <<"!">> }

\* The values set_max_body_size is given before parsing begins.
MaxBytesChoices == {0, 4}

\* The general specification: one short chunked body, a limit of 4 bytes.
Streams == { chunked_encode(<<str_a>>) }

BodyHeaders ==
    { <<Header_ContentLength, <<"5">> >>, <<Header_TransferEncoding, str_chunked>> }

BodyValues == { str_abc }

\* Header lines of the messages whose bodies are processed in order.
MessageHeaders ==
    { <<Header_ContentLength, <<"5">> >>, <<Header_ContentLength, <<"3">> >>,
      <<Header_TransferEncoding, str_chunked>> }

\* Header lines of the messages prepare_body is studied on.
list_gzip_deflate_compress_br ==
    str_gzip \o <<",", " ">> \o str_deflate \o <<",", " ">> \o str_compress
        \o <<",", " ", "b", "r">>

list_gzip_deflate_compress_gzip ==
    str_gzip \o <<",", " ">> \o str_deflate \o <<",", " ">> \o str_compress
        \o <<",", " ">> \o str_gzip

list_gzip_chunked == str_gzip \o <<",", " ">> \o str_chunked

PrepareHeaders ==
    { <<Header_ContentEncoding, list_gzip_deflate_compress_br>>,
      <<Header_ContentEncoding, list_gzip_deflate_compress_gzip>>,
      <<Header_ContentEncoding, str_gzip>>,
      <<Header_TransferEncoding, str_chunked>>,
      <<Header_TransferEncoding, list_gzip_chunked>>,
      <<Header_TransferEncoding, str_deflate>>,
      <<Header_ContentLength, <<"1", "2", "a", "b", "c">> >>,
      <<Header_ContentLength, <<"9">> >>,
      <<Header_ContentLength, <<"3">> >>,
      <<Header_ContentLength, <<"0">> >> }

\* Header names and values the header store is studied on.
HeaderNames == { name_X_A, name_x_a, name_space, name_control, name_separator }

HeaderValues == { <<>>, str_a, str_b }

-----------------------------------------------------------------------------
(* The state after construction, with the body size limit configured. *)

InitParser ==
    /\ m_headers = {}
    /\ m_body = <<>>
    /\ m_body_bytes_needed = 0
    /\ m_body_bytes_total = 0
    /\ m_content_encoding = <<>>
    /\ m_transfer_encoding = <<>>
    /\ pos = 0
    /\ op = "construct"
    /\ arg = <<>>
    /\ ret = "void"
    /\ ec = "success"

Init ==
    /\ InitParser
    /\ m_body_bytes_max = 4
    /\ stream \in Streams

-----------------------------------------------------------------------------
(* The operations. *)

AppendHeader(key, val) ==
    \E r \in { Only({ append_header(p, key, val) : p \in {this} }) } :
        /\ Len(get_header(this, key)) + 2 + Len(val) <= MaxValueLen
        /\ Becomes(r.p)
        /\ op' = "append_header"
        /\ arg' = [key |-> key, val |-> val,
                   had |-> header_find(m_headers, key) # {}]
        /\ ret' = r.ec
        /\ ec' = r.ec
        /\ UNCHANGED <<stream, pos>>

ReplaceHeader(key, val) ==
    \E r \in { Only({ replace_header(p, key, val) : p \in {this} }) } :
        /\ Becomes(r.p)
        /\ op' = "replace_header"
        /\ arg' = [key |-> key, val |-> val,
                   had |-> header_find(m_headers, key) # {}]
        /\ ret' = r.ec
        /\ ec' = r.ec
        /\ UNCHANGED <<stream, pos>>

RemoveHeader(key) ==
    \E r \in { Only({ remove_header(p, key) : p \in {this} }) } :
        /\ Becomes(r.p)
        /\ op' = "remove_header"
        /\ arg' = [key |-> key, had |-> header_find(m_headers, key) # {}]
        /\ ret' = r.ec
        /\ ec' = r.ec
        /\ UNCHANGED <<stream, pos>>

GetHeader(key) ==
    /\ op' = "get_header"
    /\ arg' = [key |-> key]
    /\ ret' = get_header(this, key)
    /\ UNCHANGED <<parserVars, stream, pos, ec>>

SetBody(value) ==
    \E r \in { Only({ set_body(p, value) : p \in {this} }) } :
        /\ Becomes(r.p)
        /\ op' = "set_body"
        /\ arg' = [value |-> value]
        /\ ret' = r.ec
        /\ ec' = r.ec
        /\ UNCHANGED <<stream, pos>>

ConsumeBody ==
    /\ \E p \in { consume_body(this) } : Becomes(p)
    /\ op' = "consume_body"
    /\ arg' = <<>>
    /\ ret' = "void"
    /\ UNCHANGED <<stream, pos, ec>>

PrepareBody ==
    \E r \in { Only({ prepare_body(p) : p \in {this} }) } :
        /\ Len(m_content_encoding) < MaxEncLen
        /\ Len(m_transfer_encoding) < MaxEncLen
        /\ Becomes(r.p)
        /\ op' = "prepare_body"
        /\ arg' = <<>>
        /\ ret' = r.ret
        /\ ec' = r.ec
        /\ UNCHANGED <<stream, pos>>

\* The caller hands over the next len bytes of the stream, with its error_code
\* either fresh or as the last call left it, and moves on by the count returned.
ProcessBody(len, ec_in) ==
    \E r \in { Only({ [buf |-> buf, out |-> process_body(p, buf, ec_in)] :
                      p \in {this}, buf \in { SubSeq(stream, pos + 1, pos + len) } }) } :
        /\ Becomes(r.out.p)
        /\ op' = "process_body"
        /\ arg' = [buf |-> r.buf, depth |-> r.out.depth]
        /\ ret' = r.out.ret
        /\ ec' = r.out.ec
        /\ pos' = pos + r.out.ret
        /\ UNCHANGED stream

\* The header store the lines being read were written from, where the caller
\* keeps one.
written_from == IF op \in {"construct_reader", "process_header"} THEN arg.headers ELSE {}

\* The caller hands over one header line and moves on by consumed bytes of
\* the stream.
ProcessHeader(line, consumed) ==
    \E r \in { Only({ process_header(p, line) : p \in {this} }) } :
        /\ Becomes(r.p)
        /\ op' = "process_header"
        /\ arg' = [line |-> line, headers |-> written_from]
        /\ ret' = r.ec
        /\ ec' = r.ec
        /\ pos' = pos + consumed
        /\ UNCHANGED stream

\* The caller keeps the output as the stream a reader will be given.
RawHeaders ==
    \E r \in { raw_headers(this) } :
        /\ op' = "raw_headers"
        /\ arg' = <<>>
        /\ ret' = r
        /\ stream' = r
        /\ UNCHANGED <<parserVars, pos, ec>>

\* A second parser is constructed to read what the first one wrote.
ConstructReader ==
    /\ m_headers' = {}
    /\ m_body' = <<>>
    /\ m_body_bytes_needed' = 0
    /\ m_body_bytes_total' = 0
    /\ m_content_encoding' = <<>>
    /\ m_transfer_encoding' = <<>>
    /\ pos' = 0
    /\ op' = "construct_reader"
    /\ arg' = [headers |-> m_headers]
    /\ ret' = "void"
    /\ UNCHANGED <<m_body_bytes_max, stream, ec>>

\* Any order of calls on one parser, on short inputs.
Next ==
    \/ \E kv \in BodyHeaders : ReplaceHeader(kv[1], kv[2])
    \/ \E value \in BodyValues : SetBody(value)
    \/ PrepareBody
    \/ \E len \in 0..(Len(stream) - pos), e \in {"success", ec} : ProcessBody(len, e)

Spec == Init /\ [][Next]_vars

\* The header store alone.
InitHeaders ==
    /\ InitParser
    /\ m_body_bytes_max = 0
    /\ stream = <<>>

NextHeaders ==
    \/ \E key \in HeaderNames, val \in HeaderValues : AppendHeader(key, val)
    \/ \E key \in HeaderNames, val \in HeaderValues : ReplaceHeader(key, val)
    \/ \E key \in HeaderNames : RemoveHeader(key)
    \/ \E key \in HeaderNames : GetHeader(key)

SpecHeaders == InitHeaders /\ [][NextHeaders]_vars

\* The headers of a message are stored, then prepare_body is called on them,
\* once or again.
InitPrepare ==
    /\ InitParser
    /\ m_body_bytes_max \in MaxBytesChoices
    /\ stream = <<>>

InHeaders == op \in {"construct", "replace_header"}

NextPrepare ==
    \/ InHeaders /\ \E kv \in PrepareHeaders : ReplaceHeader(kv[1], kv[2])
    \/ PrepareBody

SpecPrepare == InitPrepare /\ [][NextPrepare]_vars

\* One message in the order of the control flow: its headers are stored,
\* prepare_body is called once, and when it reports a body the body bytes are
\* fed as the transport delivers them.
InitMessage ==
    /\ InitParser
    /\ m_body_bytes_max \in MaxBytesChoices
    /\ stream \in ChunkedStreams \cup PlainStreams

InBody ==
    \/ op = "prepare_body" /\ ret = TRUE /\ ec = "success"
    \/ op = "process_body"

NextMessage ==
    \/ InHeaders /\ \E kv \in MessageHeaders : ReplaceHeader(kv[1], kv[2])
    \/ InHeaders /\ PrepareBody
    \/ InBody /\ \E len \in 0..(Len(stream) - pos), e \in {"success", ec} :
                     ProcessBody(len, e)

SpecMessage == InitMessage /\ [][NextMessage]_vars

-----------------------------------------------------------------------------
(* A body set by the caller, among the calls that read one. *)

SetBodyValues == { <<>>, str_abc, str_hello }

SetBodyHeaders == { <<Header_ContentLength, <<"5">> >> }

InitSetBody ==
    /\ InitParser
    /\ m_body_bytes_max \in MaxBytesChoices
    /\ stream \in PlainStreams

NextSetBody ==
    \/ \E kv \in SetBodyHeaders : AppendHeader(kv[1], kv[2])
    \/ \E value \in SetBodyValues : SetBody(value)
    \/ ConsumeBody
    \/ PrepareBody
    \/ \E len \in 0..(Len(stream) - pos) : ProcessBody(len, "success")

SpecSetBody == InitSetBody /\ [][NextSetBody]_vars

-----------------------------------------------------------------------------
(* A header store written with raw_headers and read back line by line. *)

name_B == <<"B">>

RoundTripNames == { name_X_A, name_x_a, name_B }

RoundTripValues == { <<>>, str_a, <<" ", "a">>, <<"a", " ">> }

InitRoundTrip ==
    /\ InitParser
    /\ m_body_bytes_max = 0
    /\ stream = <<>>

\* The caller splits the stream at CRLF: the next line, without its CRLF.
next_line ==
    Only({ SubSeq(rest, 1, search_crlf(rest) - 1) :
           rest \in { SubSeq(stream, pos + 1, Len(stream)) } })

InWriter == op \in {"construct", "replace_header"}

InReader == op \in {"construct_reader", "process_header"} /\ pos < Len(stream)

NextRoundTrip ==
    \/ InWriter /\ \E key \in RoundTripNames, val \in RoundTripValues :
                       ReplaceHeader(key, val)
    \/ InWriter /\ RawHeaders
    \/ op = "raw_headers" /\ ConstructReader
    \/ InReader /\ ProcessHeader(next_line, Len(next_line) + Len(http_crlf))

SpecRoundTrip == InitRoundTrip /\ [][NextRoundTrip]_vars

-----------------------------------------------------------------------------
(* Header lines read with process_header, then the body. *)

line_X_A == name_X_A \o <<":", " ">> \o str_a

line_ContentLength_5 == Header_ContentLength \o <<":", " ", "5">>

line_ContentLength_3 == Header_ContentLength \o <<":", "3">>

\* A line without the separator.
line_no_separator == name_X_A

HeaderLines ==
    { line_X_A, line_ContentLength_5, line_ContentLength_3, line_no_separator }

InitLines ==
    /\ InitParser
    /\ m_body_bytes_max \in MaxBytesChoices
    /\ stream \in PlainStreams

\* The header block is read first, and the joined values stay short.
InLines ==
    /\ op \in {"construct", "process_header"}
    /\ Len(get_header(this, Header_ContentLength)) + Len(get_header(this, name_X_A))
           <= MaxValueLen

NextLines ==
    \/ InLines /\ \E line \in HeaderLines : ProcessHeader(line, 0)
    \/ \E value \in SetBodyValues : SetBody(value)
    \/ PrepareBody
    \/ \E len \in 0..(Len(stream) - pos) : ProcessBody(len, "success")

SpecLines == InitLines /\ [][NextLines]_vars

-----------------------------------------------------------------------------
(* A chunked body fed by a caller that never cuts a chunk-size line. *)

InitFeed ==
    /\ InitParser
    /\ m_body_bytes_max \in MaxBytesChoices
    /\ stream \in ChunkedStreams

\* The buffer of len bytes is not empty and, when a chunk-size line is due,
\* holds a CRLF.
whole_size_line(len) ==
    /\ len > 0
    /\ \/ m_body_bytes_needed # 0
       \/ search_crlf(SubSeq(stream, pos + 1, pos + len)) <= len

NextFeed ==
    \/ InHeaders /\ ReplaceHeader(Header_TransferEncoding, str_chunked)
    \/ InHeaders /\ PrepareBody
    \/ InBody /\ \E len \in 0..(Len(stream) - pos) :
                     whole_size_line(len) /\ ProcessBody(len, "success")

SpecFeed == InitFeed /\ [][NextFeed]_vars

-----------------------------------------------------------------------------
(* A body read in any framing, from any bytes, in buffers of any length. *)

\* A chunk of one byte, then a size line that reads as ULONG_MAX.
stream_negative_size == <<"1">> \o http_crlf \o <<"a", "-", "1">> \o http_crlf

\* A chunk of five bytes whose last three read as a size line of zero.
stream_zeros_in_payload == chunked_encode(<< <<"x", "x", "0", "0", "0">> >>)

\* A size line with a character that is no hexadecimal digit.
stream_not_hex == <<"1", "g">> \o http_crlf \o <<"a">> \o http_crlf

OtherStreams == { stream_negative_size, stream_zeros_in_payload, stream_not_hex }

InitChunks ==
    /\ InitParser
    /\ m_body_bytes_max \in MaxBytesChoices
    /\ stream \in ChunkedStreams \cup OtherStreams \cup PlainStreams

\* prepare_body has been called, whatever it returned.
Prepared == op \in {"prepare_body", "process_body"}

NextChunks ==
    \/ InHeaders /\ \E kv \in MessageHeaders : ReplaceHeader(kv[1], kv[2])
    \/ InHeaders /\ PrepareBody
    \/ Prepared /\ \E len \in 0..(Len(stream) - pos), e \in {"success", ec} :
                       ProcessBody(len, e)

SpecChunks == InitChunks /\ [][NextChunks]_vars

-----------------------------------------------------------------------------
(* Definitions the claims share. *)

\* The object after the step.
thisNext == this'

RECURSIVE decimal_value(_)
\* The number a string of decimal digits writes.
decimal_value(s) ==
    IF s = <<>> THEN 0
    ELSE 10 * decimal_value(SubSeq(s, 1, Len(s) - 1)) + (IndexIn(DecDigits, s[Len(s)]) - 1)

all_digits(s) == s # <<>> /\ \A i \in 1..Len(s) : s[i] \in DigitSet

\* Leading digits followed by a character that is not a digit.
trailing_non_numeric(s) ==
    /\ s # <<>>
    /\ s[1] \in DigitSet
    /\ \E i \in 1..Len(s) : s[i] \notin DigitSet

-----------------------------------------------------------------------------
(* C1 *)

\* C1: on a fresh parser on which prepare_body selected chunked framing, one
\* process_body call given a complete well-formed chunked stream leaves the
\* body equal to the concatenation of the chunk payloads.
C1_SingleCallDecodesStream ==
    [][(/\ op = "prepare_body" /\ ret = TRUE /\ ec = "success"
        /\ has_chunked(m_transfer_encoding)
        /\ m_body_bytes_max = 0
        /\ pos = 0
        /\ op' = "process_body"
        /\ arg'.buf = stream)
       => \A cs \in ChunkLists :
              stream = chunked_encode(cs) => m_body' = concat(cs)]_vars

\* What the call does instead: it returns after the first chunk's payload.
C1_StopsAfterFirstChunk ==
    /\ op = "process_body"
    /\ arg.buf = stream_Wikipedia
    /\ ret = 7
    /\ m_body = str_Wiki

-----------------------------------------------------------------------------
(* C2 *)

\* The declared length of the message whose body is read in plain framing.
declared_length == decimal_value(get_header(this, Header_ContentLength))

\* C2: in plain framing every process_body call consumes min(bytes_needed,
\* len) bytes, appends exactly those bytes to the body, lowers bytes_needed by
\* that count and sets no error; so the body is always the prefix of the
\* transport stream fed so far, bytes_needed is what remains of the declared
\* length, and once the declared length has been fed, however the calls split
\* it, the body is the first N bytes and further calls consume nothing.
C2_PlainFramingSplits ==
    [][(/\ op' = "process_body"
        /\ ~has_chunked(m_transfer_encoding))
       => /\ ret' = Min(m_body_bytes_needed, Len(arg'.buf))
          /\ m_body' = m_body \o SubSeq(arg'.buf, 1, ret')
          /\ m_body_bytes_needed' = m_body_bytes_needed - ret'
          /\ ec' \in {"success", ec}
          /\ m_body' = SubSeq(stream, 1, pos')
          /\ m_body_bytes_needed' = declared_length - pos'
          /\ (m_body_bytes_needed = 0 => ret' = 0 /\ m_body' = m_body)]_vars

\* "he" then "llo": the second of two calls completes a body of five bytes.
C2_Witness ==
    /\ op = "process_body"
    /\ ~has_chunked(m_transfer_encoding)
    /\ arg.buf = <<"l", "l", "o">>
    /\ m_body = str_hello
    /\ m_body_bytes_needed = 0
    /\ ret = 3

-----------------------------------------------------------------------------
(* C3 *)

\* C3: whenever max_bytes is not zero, bytes_total is at most max_bytes in
\* every reachable state; and a prepare_body or process_body call that
\* reports BodyTooLarge leaves bytes_total and bytes_needed at the values they
\* had before the call.
C3_TotalWithinMax ==
    [][/\ (m_body_bytes_max' # 0 => m_body_bytes_total' <= m_body_bytes_max')
       /\ (/\ op' \in {"prepare_body", "process_body"}
           /\ ec' = "body_too_large"
           /\ ~(op' = "process_body" /\ arg'.buf = <<>>))
          => /\ m_body_bytes_total' = m_body_bytes_total
             /\ m_body_bytes_needed' = m_body_bytes_needed]_vars

\* The state the failed prepare_body leaves: the declared length is stored.
C3_TotalAboveMax ==
    /\ op = "prepare_body"
    /\ ec = "body_too_large"
    /\ m_body_bytes_max # 0
    /\ m_body_bytes_total > m_body_bytes_max

-----------------------------------------------------------------------------
(* C4 *)

\* C4: whenever max_bytes is not zero, the length of the body is at most
\* max_bytes in every reachable state.
C4_BodyWithinMax ==
    m_body_bytes_max # 0 => Len(m_body) <= m_body_bytes_max

\* A body longer than max_bytes reached by calls that all succeed: a body of
\* three bytes is set, and three more are processed onto it.
C4_BodyAboveMaxWithoutError ==
    /\ op = "process_body"
    /\ ec = "success"
    /\ m_body_bytes_max # 0
    /\ m_body_bytes_total <= m_body_bytes_max
    /\ Len(m_body) > m_body_bytes_max

-----------------------------------------------------------------------------
(* C5 *)

\* C5 as stated: prepare_body on a message whose Content-Encoding header is
\* "gzip, deflate, compress, br" fails with UnsupportedContentEncoding.
C5_FourEntriesUnsupported ==
    (/\ op = "prepare_body"
     /\ get_header(this, Header_ContentEncoding) = list_gzip_deflate_compress_br)
    => ec = "unsupported_content_encoding"

\* C5: prepare_body on a message whose Content-Encoding header is
\* "gzip, deflate, compress, br" returns false with UnknownContentEncoding:
\* the unknown token ends the call before the number of entries is tested.
C5_FourEntriesUnknown ==
    (/\ op = "prepare_body"
     /\ get_header(this, Header_ContentEncoding) = list_gzip_deflate_compress_br)
    => /\ ret = FALSE
       /\ ec = "unknown_content_encoding"

C5_Witness ==
    /\ op = "prepare_body"
    /\ get_header(this, Header_ContentEncoding) = list_gzip_deflate_compress_br
    /\ ec = "unknown_content_encoding"
    /\ Len(m_content_encoding) = 3

-----------------------------------------------------------------------------
(* C6 *)

\* C6: in every reachable state the content-encoding vector and the
\* transfer-encoding vector each hold at most three entries.
C6_AtMostThreeEncodings ==
    /\ Len(m_content_encoding) <= 3
    /\ Len(m_transfer_encoding) <= 3

\* The state a second prepare_body on the same message leaves.
C6_FourEncodings ==
    /\ op = "prepare_body"
    /\ get_header(this, Header_TransferEncoding) = list_gzip_chunked
    /\ Len(m_transfer_encoding) = 4

\* The state one prepare_body on a fresh parser leaves when the list has four
\* known entries: the call fails and the four entries stay.
C6_FourEncodingsAfterRejection ==
    /\ op = "prepare_body"
    /\ ec = "unsupported_content_encoding"
    /\ m_content_encoding = <<"gzip", "deflate", "compress", "gzip">>

-----------------------------------------------------------------------------
(* C7 *)

\* The message has a valid Transfer-Encoding list that contains chunked.
chunked_declared ==
    get_header(this, Header_TransferEncoding) \in {str_chunked, list_gzip_chunked}

\* The number of entries of a list value: one more than its commas.
list_entries(h) ==
    IF h = <<>> THEN 0 ELSE 1 + Cardinality({ i \in 1..Len(h) : h[i] = "," })

\* The Content-Encoding header is absent or valid, and the sequence with its
\* entries added stays within three.
content_encoding_passes ==
    /\ get_header(this, Header_ContentEncoding) \in {<<>>, str_gzip}
    /\ Len(m_content_encoding)
           + list_entries(get_header(this, Header_ContentEncoding)) <= 3

\* The transfer-encoding sequence with the header's entries added stays
\* within three.
transfer_encoding_within_three ==
    Len(m_transfer_encoding)
        + list_entries(get_header(this, Header_TransferEncoding)) <= 3

\* C7: when a valid Transfer-Encoding list contains chunked, prepare_body
\* never consults Content-Length: whatever that header holds, neither
\* InvalidFormat nor BodyTooLarge is raised and bytes_needed and bytes_total
\* keep their values; and the call, when the Content-Encoding step passes and
\* the transfer-encoding sequence holds at most three entries, returns true
\* with no error.
C7_ChunkedIgnoresContentLength ==
    [][(op' = "prepare_body" /\ chunked_declared)
       => /\ ec' \notin {"invalid_format", "body_too_large"}
          /\ m_body_bytes_needed' = m_body_bytes_needed
          /\ m_body_bytes_total' = m_body_bytes_total
          /\ (content_encoding_passes /\ transfer_encoding_within_three)
             => /\ ret' = TRUE
                /\ ec' = "success"]_vars

\* Chunked with a Content-Length that alone would be InvalidFormat.
C7_Witness ==
    /\ op = "prepare_body"
    /\ chunked_declared
    /\ get_header(this, Header_ContentLength) = <<"1", "2", "a", "b", "c">>
    /\ ret = TRUE
    /\ ec = "success"
    /\ m_body_bytes_needed = 0
    /\ m_body_bytes_total = 0

-----------------------------------------------------------------------------
(* C8 *)

\* The encoding steps pass and chunked is not declared: the call reaches the
\* Content-Length step.
reaches_content_length ==
    /\ content_encoding_passes
    /\ transfer_encoding_within_three
    /\ get_header(this, Header_TransferEncoding) \in {<<>>, str_deflate}

\* C8: without chunked, prepare_body decides by Content-Length: absent, it
\* returns false with no error; a value with a trailing non-numeric character
\* is InvalidFormat; a number above a non-zero max_bytes is BodyTooLarge;
\* otherwise bytes_needed and bytes_total are both the number, no error is
\* set, and the return value is true exactly when the number is above zero.
C8_ContentLengthDecides ==
    [][(op' = "prepare_body" /\ reaches_content_length)
       => LET cl == get_header(this, Header_ContentLength)
          IN  /\ cl = <<>>
                 => /\ ret' = FALSE
                    /\ ec' = "success"
                    /\ m_body_bytes_needed' = m_body_bytes_needed
                    /\ m_body_bytes_total' = m_body_bytes_total
              /\ trailing_non_numeric(cl)
                 => /\ ret' = FALSE
                    /\ ec' = "invalid_format"
              /\ (/\ all_digits(cl)
                  /\ m_body_bytes_max # 0
                  /\ decimal_value(cl) > m_body_bytes_max)
                 => /\ ret' = FALSE
                    /\ ec' = "body_too_large"
              /\ (/\ all_digits(cl)
                  /\ (m_body_bytes_max = 0 \/ decimal_value(cl) <= m_body_bytes_max))
                 => /\ m_body_bytes_needed' = decimal_value(cl)
                    /\ m_body_bytes_total' = decimal_value(cl)
                    /\ ec' = "success"
                    /\ ret' = (decimal_value(cl) > 0)]_vars

\* "12abc" is refused whatever max_bytes is.
C8_Witness ==
    /\ op = "prepare_body"
    /\ ~has_chunked(m_transfer_encoding)
    /\ get_header(this, Header_ContentLength) = <<"1", "2", "a", "b", "c">>
    /\ m_body_bytes_max = 0
    /\ ret = FALSE
    /\ ec = "invalid_format"

-----------------------------------------------------------------------------
(* C9 *)

\* The last operation was a successful append of a name the store had no
\* entry for.
appended_new_name ==
    /\ op = "append_header"
    /\ ec = "success"
    /\ ~arg.had

\* The step is the operation o on the name just appended, in any letter case.
then_on_same_name(o) ==
    /\ appended_new_name
    /\ op' = o
    /\ ci_equal(arg'.key, arg.key)

\* C9 as stated: for every token name and all values a and b, on a store
\* with no entry for the name, append(a) then get returns a, and append(a)
\* then append(b) leaves get equal to a, ", ", b; in any letter case.
C9_AppendJoinsAlways ==
    [][/\ then_on_same_name("get_header") => ret' = arg.val
       /\ then_on_same_name("append_header")
          => \A k \in HeaderNames :
                 ci_equal(k, arg.key)
                 => get_header(thisNext, k) = arg.val \o <<",", " ">> \o arg'.val]_vars

\* C9: for every token name and all values a and b, on a store with no entry
\* for the name, append(a) then get returns a, and append(a) then append(b)
\* leaves get equal to a, ", ", b when a is not empty and equal to b when a is
\* empty; in any letter case.
C9_AppendJoinsNonEmpty ==
    [][/\ then_on_same_name("get_header") => ret' = arg.val
       /\ then_on_same_name("append_header")
          => \A k \in HeaderNames :
                 ci_equal(k, arg.key)
                 => get_header(thisNext, k) =
                        IF arg.val = <<>> THEN arg'.val
                        ELSE arg.val \o <<",", " ">> \o arg'.val]_vars

\* "a" appended as X-A, then "b" appended as x-a: both spellings read "a, b".
C9_Witness ==
    /\ op = "append_header"
    /\ arg.key = name_x_a
    /\ arg.val = str_b
    /\ arg.had
    /\ \E e \in m_headers : e.first = name_X_A
    /\ get_header(this, name_X_A) = <<"a", ",", " ", "b">>
    /\ get_header(this, name_x_a) = <<"a", ",", " ", "b">>

-----------------------------------------------------------------------------
(* C10 *)

\* The name holds a space, a control character or a separator.
invalid_name(key) ==
    \E i \in 1..Len(key) : key[i] \in {" ", "\t", ":"}

\* C10: append_header, replace_header and remove_header called with a name
\* that holds a non-token character return InvalidHeaderName and leave the
\* header store as it was; and no name in the store holds such a character.
C10_InvalidNameRejected ==
    [][/\ (/\ op' \in {"append_header", "replace_header", "remove_header"}
           /\ invalid_name(arg'.key))
          => /\ ret' = "invalid_header_name"
             /\ m_headers' = m_headers
       /\ \A e \in m_headers' : ~invalid_name(e.first)]_vars

\* A refused append on a store that holds an entry.
C10_Witness ==
    /\ op = "append_header"
    /\ invalid_name(arg.key)
    /\ ret = "invalid_header_name"
    /\ m_headers # {}

-----------------------------------------------------------------------------
(* C11 *)

\* The decimal string of a length below ten.
one_digit(n) == <<DecDigits[n + 1]>>

\* C11: after every successful set_body(value), from any prior state, a
\* non-empty value is the body and Content-Length is the decimal string of its
\* length, replacing any earlier Content-Length; after an empty value the body
\* is empty and the store has no Content-Length entry.
C11_SetBodyConsistent ==
    [][(op' = "set_body" /\ ec' = "success")
       => IF arg'.value # <<>>
          THEN /\ m_body' = arg'.value
               /\ get_header(thisNext, Header_ContentLength)
                      = one_digit(Len(arg'.value))
          ELSE /\ m_body' = <<>>
               /\ \A e \in m_headers' : ~ci_equal(e.first, Header_ContentLength)]_vars

\* A body of three bytes set on a parser that was prepared with a
\* Content-Length of 5 and holds processed bytes: the header now reads 3.
C11_Witness ==
    /\ op = "set_body"
    /\ ec = "success"
    /\ arg.value = str_abc
    /\ m_body_bytes_total = 5
    /\ pos > 0
    /\ m_body = str_abc
    /\ get_header(this, Header_ContentLength) = <<"3">>

-----------------------------------------------------------------------------
(* C12 *)

\* C12: set_body with a value longer than a max_bytes that is not zero returns
\* BodyTooLarge and leaves the header store and the body as they were.
C12_SetBodyTooLarge ==
    [][(/\ op' = "set_body"
        /\ m_body_bytes_max # 0
        /\ Len(arg'.value) > m_body_bytes_max)
       => /\ ret' = "body_too_large"
          /\ m_headers' = m_headers
          /\ m_body' = m_body]_vars

\* A refused body on a parser that holds a body and a Content-Length.
C12_Witness ==
    /\ op = "set_body"
    /\ ret = "body_too_large"
    /\ arg.value = str_hello
    /\ m_body = str_abc
    /\ get_header(this, Header_ContentLength) = <<"3">>

-----------------------------------------------------------------------------
(* C13 *)

\* The two stores hold the same key-to-value pairs, keys compared without
\* regard to case.
same_pairs(g, h) ==
    /\ \A e \in g : \E f \in h : ci_equal(e.first, f.first) /\ e.second = f.second
    /\ \A f \in h : \E e \in g : ci_equal(e.first, f.first) /\ e.second = f.second

\* Every line of the written store has been read.
read_back ==
    /\ op \in {"construct_reader", "process_header"}
    /\ pos = Len(stream)

-----------------------------------------------------------------------------
(* C14 *)

\* The size the operation of the step declares or reaches is above a
\* max_bytes that is not zero.
size_above_max ==
    /\ m_body_bytes_max # 0
    /\ \/ op' = "set_body" /\ Len(arg'.value) > m_body_bytes_max
       \/ op' = "prepare_body"
          /\ all_digits(get_header(this, Header_ContentLength))
          /\ decimal_value(get_header(this, Header_ContentLength)) > m_body_bytes_max
       \/ op' = "process_body" /\ m_body_bytes_total' > m_body_bytes_max
       \/ op' = "process_header"
          /\ \E n \in 0..9 :
                 /\ n > m_body_bytes_max
                 /\ arg'.line \in { Header_ContentLength \o <<":", " ">> \o one_digit(n),
                                    Header_ContentLength \o <<":">> \o one_digit(n) }

\* C14: process_header, set_body, prepare_body and process_body return
\* BodyTooLarge only when a declared or actual body size is above a max_bytes
\* that is not zero, and for no other failure, such as a header line without
\* the separator.
C14_BodyTooLargeOnlyForSize ==
    [][(/\ op' \in {"process_header", "set_body", "prepare_body", "process_body"}
        /\ ec' = "body_too_large")
       => size_above_max]_vars

\* What the line without the separator gets, with no limit configured.
C14_TooLargeWithoutLimit ==
    /\ op = "process_header"
    /\ arg.line = line_no_separator
    /\ ret = "body_too_large"
    /\ m_body_bytes_max = 0

-----------------------------------------------------------------------------
(* C15 *)

\* The step is a process_body call that takes a chunk-size line for the
\* terminal one: between chunks, it reports its whole buffer consumed and
\* appends nothing.
end_of_body_step ==
    /\ op' = "process_body"
    /\ m_body_bytes_needed = 0
    /\ arg'.buf # <<>>
    /\ ec' = "success"
    /\ ret' = Len(arg'.buf)
    /\ m_body' = m_body
    /\ m_body_bytes_needed' = 0

\* The zero-size chunk that ends a stream: "0", CRLF, CRLF.
last_chunk == <<"0">> \o http_crlf \o http_crlf

\* C15: with chunked framing, when a well-formed chunked stream is fed through
\* repeated process_body calls, each given bytes not yet reported consumed and
\* no call cutting a chunk-size line, the body ends up the concatenation of
\* the chunk payloads (it is that once the whole stream is reported consumed),
\* and end-of-body is found only within the zero-size chunk that ends the
\* stream, never at the CRLF after a payload.
C15_FedStreamDecodes ==
    [][(/\ op' = "process_body"
        /\ has_chunked(m_transfer_encoding)
        /\ m_body_bytes_max = 0)
       => /\ pos' = Len(stream)
             => \A cs \in ChunkLists :
                    stream = chunked_encode(cs) => m_body' = concat(cs)
          /\ end_of_body_step
             => pos >= Len(stream) - Len(last_chunk)]_vars

\* End-of-body found at the CRLF that follows the payload "Wiki": the whole
\* stream is reported consumed and "pedia" is not in the body.
C15_EndAtPayloadCRLF ==
    /\ op = "process_body"
    /\ stream = stream_Wikipedia
    /\ arg.buf = SubSeq(stream_Wikipedia, 8, Len(stream_Wikipedia))
    /\ pos = Len(stream)
    /\ m_body = str_Wiki

-----------------------------------------------------------------------------
(* C16 *)

\* The buffer holds a CRLF, and the bytes before the first one are zeros.
zero_size_line(buf) ==
    /\ search_crlf(buf) \in 2..Len(buf)
    /\ \A i \in 1..(search_crlf(buf) - 1) : buf[i] = "0"

\* The step is process_body between chunks, in chunked framing.
between_chunks_step ==
    /\ op' = "process_body"
    /\ has_chunked(m_transfer_encoding)
    /\ m_body_bytes_needed = 0

\* C16: in chunked framing between chunks, when the chunk-size line parses to
\* 0, process_body returns the whole length of its buffer, appends nothing,
\* leaves bytes_needed at 0 and bytes_total as it was, and does not recurse.
C16_ZeroChunkEndsBody ==
    [][(between_chunks_step /\ zero_size_line(arg'.buf))
       => /\ ret' = Len(arg'.buf)
          /\ m_body' = m_body
          /\ m_body_bytes_needed' = 0
          /\ m_body_bytes_total' = m_body_bytes_total
          /\ arg'.depth = 0]_vars

-----------------------------------------------------------------------------
(* C17 *)

hex_digit_set == DigitSet \cup {"a","b","c","d","e","f","A","B","C","D","E","F"}

\* The bytes of buf before its first CRLF are one or more hexadecimal digits.
hex_size_line(buf) ==
    /\ search_crlf(buf) \in 2..Len(buf)
    /\ \A i \in 1..(search_crlf(buf) - 1) : buf[i] \in hex_digit_set

\* C17: in chunked framing between chunks, a buffer that is not empty and
\* holds no CRLF, or whose bytes before the first CRLF are not entirely a
\* hexadecimal number, makes process_body fail with InvalidFormat; and every
\* process_body call that reports InvalidFormat or BodyTooLarge returns 0 and
\* appends nothing to the body.
C17_MalformedSizeLineRejected ==
    [][/\ (/\ between_chunks_step
           /\ arg'.buf # <<>>
           /\ ~hex_size_line(arg'.buf))
          => ec' = "invalid_format"
       /\ (/\ op' = "process_body"
           /\ ec = "success"
           /\ ec' \in {"invalid_format", "body_too_large"})
          => /\ ret' = 0
             /\ m_body' = m_body]_vars

\* The size line "-1" taken for a number: no error, and ULONG_MAX bytes
\* expected.
C17_NegativeSizeAccepted ==
    /\ op = "process_body"
    /\ stream = stream_negative_size
    /\ pos = Len(stream)
    /\ ec = "success"
    /\ m_body_bytes_needed = ULONG_MAX

-----------------------------------------------------------------------------
(* C18 *)

\* a is a prefix of b.
is_prefix(a, b) == Len(a) <= Len(b) /\ SubSeq(b, 1, Len(a)) = a

\* C18: on a parser that starts with an empty body and zero counters, after
\* one prepare_body and any process_body calls, failed ones included,
\* bytes_total is the length of the body plus bytes_needed in every state,
\* and each body is a prefix of every later one.
C18_TotalIsBodyPlusNeeded ==
    [][(op' \in {"prepare_body", "process_body"})
       => /\ m_body_bytes_total' = Len(m_body') + m_body_bytes_needed'
          /\ is_prefix(m_body, m_body')]_vars

-----------------------------------------------------------------------------
(* C19 *)

\* C19: for every state and every buffer, the value process_body returns is
\* at most the length of the buffer: in plain framing, within a chunk, at a
\* new chunk with its nested call, and at the terminal chunk.
C19_ConsumedWithinBuffer ==
    [][(op' = "process_body")
       => /\ ret' >= 0
          /\ ret' <= Len(arg'.buf)]_vars

\* A size line and a whole payload, read by a call and the call nested in it:
\* every byte of the buffer is consumed.
C19_Witness ==
    /\ op = "process_body"
    /\ arg.depth = 1
    /\ arg.buf = SubSeq(stream_Wikipedia, 1, 7)
    /\ ret = 7
    /\ m_body = str_Wiki

-----------------------------------------------------------------------------
(* C20 *)

\* C20: every process_body call returns, and at most one call of process_body
\* is nested in it, however many chunks its buffer holds: the nested call is
\* made only once a chunk size that is not zero is stored, and it returns 0
\* on an empty remainder or reads payload as within a chunk and returns.
C20_NestsAtMostOnce ==
    [][(op' = "process_body")
       => /\ arg'.depth \in {0, 1}
          /\ arg'.depth = 1
             => LET processed == search_crlf(arg'.buf) + 1
                    appended  == Len(m_body') - Len(m_body)
                IN  /\ has_chunked(m_transfer_encoding)
                    /\ m_body_bytes_needed = 0
                    /\ processed <= Len(arg'.buf)
                    /\ m_body_bytes_needed' + appended # 0
                    /\ appended = Min(m_body_bytes_needed' + appended,
                                      Len(arg'.buf) - processed)
                    /\ ret' = processed + appended]_vars

\* Every call the caller can make returns: the step is defined for every
\* buffer.
C20_EveryCallReturns ==
    Prepared => \A len \in 0..(Len(stream) - pos) : ENABLED ProcessBody(len, "success")

\* A buffer with three chunks, read with one nested call.
C20_Witness ==
    /\ op = "process_body"
    /\ arg.buf = stream_Wikipedia
    /\ arg.depth = 1

=============================================================================
